---------------------------- MODULE Spec2Model ----------------------------
(***************************************************************************)
(* A model of rag-from-scratch: the sentence-aware text chunker            *)
(* (src/src/rag_from_scratch/core/text_splitter.py) and the orchestration  *)
(* around it (chat-completion calls, document readers, ingestion into the  *)
(* vector store, the CSV log of results, the conversation manager).        *)
(*                                                                          *)
(* A Python str is a sequence of one-character strings.  Every loop of the  *)
(* source is stepped one iteration per action; the body of each iteration   *)
(* is an operator, so that the whole function is also available as a value  *)
(* (the fold of the body over the input).                                   *)
(***************************************************************************)
EXTENDS Integers, Sequences, FiniteSets, TLC

VARIABLES
    pc,                  \* which function of the pipeline is running
    document,            \* the text split_text was called with
    text,                \* split_text / split_into_potential_sentences: text
    chunk_size,          \* create_chunks: chunk_size
    abbreviations,       \* reconstruct_sentences: abbreviations
    potential_sentences, \* output of split_into_potential_sentences
    i,                   \* reconstruct_sentences: the loop variable i (0-based)
    current_sentence,    \* reconstruct_sentences: current_sentence
    sentences,           \* reconstruct_sentences' result, create_chunks' input
    pos,                 \* create_chunks: 1-based place of the for-loop in sentences
    chunks,              \* create_chunks: chunks
    current_chunk,       \* create_chunks: current_chunk
    current_size,        \* create_chunks: current_size
    returned,            \* the value the running function returned: <<>> or <<v>>
    raised,              \* the exception that left the running function: <<>> or <<e>>
    query,               \* generate_response / contextualize_query: query
    context,             \* generate_response: context
    conversation_history, \* generate_response / contextualize_query: the history
    prompt,              \* the user message sent to the chat-completion service
    completion,          \* what client.chat.completions.create did: <<>> or <<o>>
    search_results,      \* conversational_rag_query: semantic_search_results
    file_path,           \* DocumentReaderFactory: file_path (the file's name)
    reader,              \* DocumentReaderFactory.read_document: reader
    reads,               \* the read(file_path) calls made on readers, in order
    csv_file,            \* save_rag_results: the file at filepath, <<>> when absent
    results,             \* save_rag_results: results
    saved_rows,          \* the results of the save_rag_results calls that returned
    conversations,       \* ConversationManager.conversations
    max_messages,        \* ConversationManager.max_messages: <<>> (None) or <<m>>
    session_id,          \* the session_id argument of the running method
    folder,              \* process_and_add_documents: the files of folder_path
    collection,          \* the vector store: the batches added, in order
    processed_files,     \* process_and_add_documents: processed_files
    files,               \* process_and_add_documents: files
    file_idx,            \* process_and_add_documents: place of the loop in files
    batch_i,             \* add_to_collection: the loop variable i
    run_added,           \* collection.add calls that returned in the current run
    run_results          \* the finished runs: how each ended and what it added

chunkerVars == <<document, text, chunk_size, abbreviations, potential_sentences, i,
                 current_sentence, sentences, pos, chunks, current_chunk,
                 current_size>>
callVars == <<returned, raised>>
apiVars == <<query, context, conversation_history, prompt, completion,
             search_results>>
readerVars == <<file_path, reader, reads>>
csvVars == <<csv_file, results, saved_rows>>
convVars == <<conversations, max_messages, session_id>>
ingestVars == <<folder, collection, processed_files, files, file_idx, batch_i,
                run_added, run_results>>

\* Everything but the chunker's state.
appVars == <<callVars, apiVars, readerVars, csvVars, convVars, ingestVars>>

vars == <<pc, chunkerVars, appVars>>

\* Python's None and a present value, for a variable that may hold either.
None == <<>>
Some(v) == <<v>>

\* The state outside a component while the component is not in use.
CallIdle == returned = None /\ raised = None
ApiIdle ==
    /\ query = "" /\ context = "" /\ conversation_history = None
    /\ prompt = None /\ completion = None /\ search_results = None
ReaderIdle == file_path = <<>> /\ reader = None /\ reads = <<>>
CsvIdle == csv_file = None /\ results = None /\ saved_rows = <<>>
ConvIdle == conversations = <<>> /\ max_messages = None /\ session_id = ""
IngestIdle ==
    /\ folder = <<>> /\ collection = <<>> /\ processed_files = {}
    /\ files = <<>> /\ file_idx = 0 /\ batch_i = 0
    /\ run_added = 0 /\ run_results = <<>>
AppIdle == CallIdle /\ ApiIdle /\ ReaderIdle /\ CsvIdle /\ ConvIdle /\ IngestIdle
ChunkerIdle ==
    /\ document = <<>> /\ text = <<>> /\ chunk_size = 0 /\ abbreviations = {}
    /\ potential_sentences = <<>> /\ i = 0 /\ current_sentence = <<>>
    /\ sentences = <<>> /\ pos = 1 /\ chunks = <<>> /\ current_chunk = <<>>
    /\ current_size = 0

----------------------------------------------------------------------------
(* Bounds of the model.                                                     *)

MaxSentLen == 2
MaxSentences == 3
MaxChunkSize == 3
MaxTextLen == 4
MaxParts == 5
MaxDocTokens == 4

\* split_text's default chunk_size.
DefaultChunkSize == 500

----------------------------------------------------------------------------
(* Python str operations.                                                   *)

\* The whitespace characters of the model: str.strip() and the regex class \s.
Whitespace == {" ", "\t", "\n"}

UpperChars == <<"A", "B", "C", "D", "E", "F", "G", "H", "I", "J", "K", "L", "M",
                "N", "O", "P", "Q", "R", "S", "T", "U", "V", "W", "X", "Y", "Z">>
LowerChars == <<"a", "b", "c", "d", "e", "f", "g", "h", "i", "j", "k", "l", "m",
                "n", "o", "p", "q", "r", "s", "t", "u", "v", "w", "x", "y", "z">>

IsUpper(c) == \E n \in DOMAIN UpperChars : UpperChars[n] = c

LowerChar(c) ==
    IF IsUpper(c)
    THEN LowerChars[CHOOSE n \in DOMAIN UpperChars : UpperChars[n] = c]
    ELSE c

\* str.lower()
Lower(s) == [n \in 1..Len(s) |-> LowerChar(s[n])]

\* str.endswith(suffix)
EndsWith(s, suffix) ==
    /\ Len(suffix) <= Len(s)
    /\ SubSeq(s, Len(s) - Len(suffix) + 1, Len(s)) = suffix

RECURSIVE LStrip(_)
LStrip(s) == IF s # <<>> /\ Head(s) \in Whitespace THEN LStrip(Tail(s)) ELSE s

RECURSIVE RStrip(_)
RStrip(s) ==
    IF s # <<>> /\ s[Len(s)] \in Whitespace
    THEN RStrip(SubSeq(s, 1, Len(s) - 1))
    ELSE s

\* str.strip()
Strip(s) == RStrip(LStrip(s))

\* " ".join(parts)
RECURSIVE Join(_)
Join(parts) ==
    IF parts = <<>> THEN <<>>
    ELSE IF Len(parts) = 1 THEN parts[1]
    ELSE parts[1] \o <<" ">> \o Join(Tail(parts))

\* All strings over an alphabet of length at most n.
RECURSIVE StringsUpTo(_, _)
StringsUpTo(alphabet, n) ==
    IF n = 0 THEN {<<>>}
    ELSE LET shorter == StringsUpTo(alphabet, n - 1)
         IN  shorter \cup {Append(s, c) : s \in shorter, c \in alphabet}

\* All lists over a pool of length at most n.
ListsUpTo(pool, n) == StringsUpTo(pool, n)

----------------------------------------------------------------------------
(* normalize_whitespace                                                     *)

\* re.sub(r"\s+", " ", text): every maximal whitespace run becomes one space.
\* re.sub(r"\s", " ", text): every whitespace character on its own.
NormalizeEachCharacter(s) ==
    [n \in 1..Len(s) |-> IF s[n] \in Whitespace THEN " " ELSE s[n]]

\* re.sub(r"\s\s", " ", text): whitespace two characters at a time.
RECURSIVE NormalizePairs(_)
NormalizePairs(s) ==
    IF s = <<>> THEN <<>>
    ELSE IF Len(s) >= 2 /\ s[1] \in Whitespace /\ s[2] \in Whitespace
    THEN <<" ">> \o NormalizePairs(Tail(Tail(s)))
    ELSE <<Head(s)>> \o NormalizePairs(Tail(s))

RECURSIVE NormalizeWhitespace(_)
NormalizeWhitespace(s) ==
    IF s = <<>> THEN <<>>
    ELSE IF Head(s) \in Whitespace
    THEN <<" ">> \o NormalizeWhitespace(LStrip(s))
    ELSE <<Head(s)>> \o NormalizeWhitespace(Tail(s))

----------------------------------------------------------------------------
(* split_into_potential_sentences:                                          *)
(*     re.split(r"([.!?]+(?=\s+[A-Z]|\s*$))", text)                         *)

\* The regex class [.!?]
PunctuationChars == {".", "!", "?"}

\* (?=\s+[A-Z]) at position p (the place of the next character, 1-based).
LookaheadCapital(s, p) ==
    \E q \in (p + 1)..Len(s) :
        /\ IsUpper(s[q])
        /\ \A r \in p..(q - 1) : s[r] \in Whitespace

\* (?=\s*$) at position p.
LookaheadEnd(s, p) == \A r \in p..Len(s) : s[r] \in Whitespace

\* Mutant: the end-of-string alternative of the lookahead is missing.
LookaheadCapitalOnly(s, p) == LookaheadCapital(s, p)

\* (?=\s+[A-Z]|\s*$) at position p.
Lookahead(s, p) == LookaheadCapital(s, p) \/ LookaheadEnd(s, p)

\* The end of the match of the pattern attempted at position p, or 0 when it
\* does not match there: [.!?]+ is greedy and gives characters back until the
\* lookahead succeeds.
MatchEnd(s, p) ==
    LET ends == {e \in p..Len(s) :
                    /\ \A q \in p..e : s[q] \in PunctuationChars
                    /\ Lookahead(s, e + 1)}
    IN  IF ends = {} THEN 0
        ELSE CHOOSE e \in ends : \A f \in ends : f <= e

\* Mutant: the text after the last match is not returned.
RECURSIVE ReSplitNoRest(_, _, _)
ReSplitNoRest(s, start, p) ==
    IF p > Len(s) THEN <<>>
    ELSE LET e == MatchEnd(s, p)
         IN  IF e = 0 THEN ReSplitNoRest(s, start, p + 1)
             ELSE <<SubSeq(s, start, p - 1), SubSeq(s, p, e)>>
                      \o ReSplitNoRest(s, e + 1, e + 1)

\* re.split with one capturing group, scanning from p; start is where the
\* text element being collected begins.
RECURSIVE ReSplit(_, _, _)
ReSplit(s, start, p) ==
    IF p > Len(s) THEN <<SubSeq(s, start, Len(s))>>
    ELSE LET e == MatchEnd(s, p)
         IN  IF e = 0 THEN ReSplit(s, start, p + 1)
             ELSE <<SubSeq(s, start, p - 1), SubSeq(s, p, e)>>
                      \o ReSplit(s, e + 1, e + 1)

SplitIntoPotentialSentences(s) == ReSplit(s, 1, 1)

\* return re.split(...)
SplitText ==
    /\ pc = "split_into_potential_sentences"
    /\ potential_sentences' = SplitIntoPotentialSentences(text)
    /\ pc' = "reconstruct_sentences"
    /\ UNCHANGED <<document, text, chunk_size, abbreviations, i, current_sentence,
                   sentences, pos, chunks, current_chunk, current_size>>
    /\ UNCHANGED appVars

----------------------------------------------------------------------------
(* reconstruct_sentences                                                    *)

\* Mutant: the candidate is not lowercased before the comparison.
IsAbbreviationEndCaseSensitive(t, abbrs) ==
    \E abbr \in abbrs : EndsWith(t, abbr)

\* is_abbreviation_end
IsAbbreviationEnd(t, abbrs) ==
    \E abbr \in abbrs : EndsWith(Lower(t), abbr)

\* One iteration of the for loop at index n (0-based), on
\* st = [sentences, current_sentence].
ReconstructPair(st, ps, n, abbrs) ==
    LET current_part == Strip(ps[n + 1])
        punctuation == IF n + 1 < Len(ps) THEN ps[n + 2] ELSE <<>>
    IN  IF IsAbbreviationEnd(current_part \o punctuation, abbrs)
        THEN [sentences        |-> st.sentences,
              current_sentence |-> st.current_sentence \o current_part
                                       \o punctuation \o <<" ">>]
        ELSE [sentences        |-> Append(st.sentences,
                                          Strip(st.current_sentence \o current_part
                                                    \o punctuation)),
              current_sentence |-> <<>>]

\* Mutant: the remaining text is appended whether or not there is any.
HasRemainingAlways(st, ps) == ps # <<>>

\* Mutant: the buffer is not looked at, only the leftover element.
HasRemainingLeftoverOnly(st, ps) ==
    Len(ps) % 2 = 1 /\ Strip(ps[Len(ps)]) # <<>>

\* The test of "Handle any remaining text".
HasRemaining(st, ps) ==
    \/ st.current_sentence # <<>>
    \/ (Len(ps) % 2 = 1 /\ Strip(ps[Len(ps)]) # <<>>)

\* The statement after the loop, and the returned list.
ReconstructRemaining(st, ps) ==
    IF HasRemaining(st, ps)
    THEN Append(st.sentences, Strip(st.current_sentence \o ps[Len(ps)]))
    ELSE st.sentences

EmptyReconstruct == [sentences |-> <<>>, current_sentence |-> <<>>]

\* The for loop over range(0, len(ps) - 1, 2), from index n on.
RECURSIVE ReconstructPairs(_, _, _, _)
ReconstructPairs(st, ps, n, abbrs) ==
    IF n < Len(ps) - 1
    THEN ReconstructPairs(ReconstructPair(st, ps, n, abbrs), ps, n + 2, abbrs)
    ELSE st

\* reconstruct_sentences as a function of its arguments.
ReconstructSentences(ps, abbrs) ==
    ReconstructRemaining(ReconstructPairs(EmptyReconstruct, ps, 0, abbrs), ps)

ReconstructState == [sentences |-> sentences, current_sentence |-> current_sentence]

\* for i in range(0, len(potential_sentences) - 1, 2): ... (one iteration)
ReadPair ==
    /\ pc = "reconstruct_sentences"
    /\ i < Len(potential_sentences) - 1
    /\ LET st == ReconstructPair(ReconstructState, potential_sentences, i,
                                 abbreviations)
       IN  /\ sentences' = st.sentences
           /\ current_sentence' = st.current_sentence
    /\ i' = i + 2
    /\ UNCHANGED <<pc, document, text, chunk_size, abbreviations,
                   potential_sentences, pos, chunks, current_chunk, current_size>>
    /\ UNCHANGED appVars

\* Handle any remaining text; return sentences (create_chunks is entered).
ReturnSentences ==
    /\ pc = "reconstruct_sentences"
    /\ i >= Len(potential_sentences) - 1
    /\ sentences' = ReconstructRemaining(ReconstructState, potential_sentences)
    /\ pc' = "create_chunks"
    /\ UNCHANGED <<document, text, chunk_size, abbreviations, potential_sentences,
                   i, current_sentence, pos, chunks, current_chunk, current_size>>
    /\ UNCHANGED appVars

----------------------------------------------------------------------------
(* create_chunks                                                            *)

\* Mutant: the emptiness test of the current chunk inverted.
ExceedsChunkSizeEmptyOnly(size, sentence_size, limit, chunk) ==
    size + sentence_size > limit /\ chunk = <<>>

\* Mutant: the test of the if statement with >= for >.
ExceedsChunkSizeAtLimit(size, sentence_size, limit, chunk) ==
    size + sentence_size >= limit /\ chunk # <<>>

\* The test that closes the current chunk before a sentence.
ExceedsChunkSize(size, sentence_size, limit, chunk) ==
    size + sentence_size > limit /\ chunk # <<>>

\* The size recorded for a chunk that was just restarted with one sentence.
RestartedSize(sentence_size) == sentence_size

\* The size recorded after appending a sentence to the current chunk.
AppendedSize(size, sentence_size) == size + sentence_size + 1

\* Mutant: no sentence is skipped.
SkipsNoSentence(sentence) == FALSE

\* Whether the loop skips a (stripped) sentence.
SkipsSentence(sentence) == sentence = <<>>

\* One iteration of the for loop, on st = [chunks, current_chunk, current_size].
PackSentence(st, raw, limit) ==
    LET sentence == Strip(raw)
        sentence_size == Len(sentence)
    IN  IF SkipsSentence(sentence) THEN st
        ELSE IF ExceedsChunkSize(st.current_size, sentence_size, limit, st.current_chunk)
        THEN [chunks        |-> Append(st.chunks, Join(st.current_chunk)),
              current_chunk |-> <<sentence>>,
              current_size  |-> RestartedSize(sentence_size)]
        ELSE [chunks        |-> st.chunks,
              current_chunk |-> Append(st.current_chunk, sentence),
              current_size  |-> AppendedSize(st.current_size, sentence_size)]

\* Mutant: the chunk being built when the loop ends is dropped.
DropLastChunk(st) == st.chunks

\* The statement after the loop: add the last chunk if it exists.
FlushLastChunk(st) ==
    IF st.current_chunk # <<>>
    THEN Append(st.chunks, Join(st.current_chunk))
    ELSE st.chunks

EmptyPack == [chunks |-> <<>>, current_chunk |-> <<>>, current_size |-> 0]

RECURSIVE PackAll(_, _, _)
PackAll(st, list, limit) ==
    IF list = <<>> THEN st
    ELSE PackAll(PackSentence(st, Head(list), limit), Tail(list), limit)

\* create_chunks as a function of its arguments.
CreateChunks(list, limit) == FlushLastChunk(PackAll(EmptyPack, list, limit))

PackState == [chunks |-> chunks, current_chunk |-> current_chunk,
              current_size |-> current_size]

\* for sentence in sentences: ... (one iteration)
AddSentence ==
    /\ pc = "create_chunks"
    /\ pos <= Len(sentences)
    /\ LET st == PackSentence(PackState, sentences[pos], chunk_size)
       IN  /\ chunks' = st.chunks
           /\ current_chunk' = st.current_chunk
           /\ current_size' = st.current_size
    /\ pos' = pos + 1
    /\ UNCHANGED <<pc, document, text, chunk_size, abbreviations, potential_sentences, i,
                   current_sentence, sentences>>
    /\ UNCHANGED appVars

\* if current_chunk: chunks.append(...); return chunks
ReturnChunks ==
    /\ pc = "create_chunks"
    /\ pos > Len(sentences)
    /\ chunks' = FlushLastChunk(PackState)
    /\ pc' = "done"
    /\ UNCHANGED <<document, text, chunk_size, abbreviations, potential_sentences, i,
                   current_sentence, sentences, pos, current_chunk, current_size>>
    /\ UNCHANGED appVars

\* The sentences create_chunks is called with, directly.
SentencePool == StringsUpTo({"a", " "}, MaxSentLen)

\* test_create_chunks_basic: sentences
BasicSentences ==
    <<
     <<"T", "h", "i", "s", " ", "i", "s", " ", "s", "e", "n", "t", "e", "n",
       "c", "e", " ", "o", "n", "e", ".">>,
     <<"T", "h", "i", "s", " ", "i", "s", " ", "s", "e", "n", "t", "e", "n",
       "c", "e", " ", "t", "w", "o", ".">>,
     <<"T", "h", "i", "s", " ", "i", "s", " ", "s", "e", "n", "t", "e", "n",
       "c", "e", " ", "t", "h", "r", "e", "e", ".">>
    >>

\* test_create_chunks_exact_size: sentences
ExactSizeSentences ==
    <<
     <<"T", "h", "e", "s", "e", " ", "a", "r", "e", " ", "v", "e", "r", "y",
       " ", "g", "o", "o", "d", " ", "s", "e", "n", "t", "e", "n", "c", "e",
       "s", ".">>,
     <<"T", "h", "i", "s", " ", "i", "s", " ", "a", "n", "o", "t", "h", "e",
       "r", " ", "g", "o", "o", "d", " ", "s", "e", "n", "t", "e", "n", "c",
       "e", ".">>
    >>

\* The calls of create_chunks made by the tests of packing.
PackExamples ==
    {[sentences |-> BasicSentences, chunk_size |-> 50],
     [sentences |-> ExactSizeSentences, chunk_size |-> 30]}

InitPack ==
    /\ pc = "create_chunks"
    /\ document = <<>>
    /\ text = <<>>
    /\ \/ /\ chunk_size \in 1..MaxChunkSize
          /\ sentences \in ListsUpTo(SentencePool, MaxSentences)
       \/ \E call \in PackExamples :
             /\ chunk_size = call.chunk_size
             /\ sentences = call.sentences
    /\ abbreviations = {}
    /\ potential_sentences = <<>>
    /\ i = 0
    /\ current_sentence = <<>>
    /\ pos = 1
    /\ chunks = <<>>
    /\ current_chunk = <<>>
    /\ current_size = 0
    /\ AppIdle

NextPack == AddSentence \/ ReturnChunks

SpecPack == InitPack /\ [][NextPack]_vars

----------------------------------------------------------------------------
(* split_into_potential_sentences called directly.                          *)

SplitAlphabet == {"a", "A", " ", "\n", ".", "!"}

InitSplit ==
    /\ pc = "split_into_potential_sentences"
    /\ text \in StringsUpTo(SplitAlphabet, MaxTextLen)
    /\ document = text
    /\ chunk_size = DefaultChunkSize
    /\ abbreviations = {}
    /\ potential_sentences = <<>>
    /\ i = 0
    /\ current_sentence = <<>>
    /\ sentences = <<>>
    /\ pos = 1
    /\ chunks = <<>>
    /\ current_chunk = <<>>
    /\ current_size = 0
    /\ AppIdle

NextSplit == SplitText

SpecSplit == InitSplit /\ [][NextSplit]_vars

----------------------------------------------------------------------------
(* reconstruct_sentences called directly.                                   *)

\* The abbreviation set of test_reconstruct_sentences.
TestAbbreviations ==
    {<<"m", "r", ".">>, <<"d", "r", ".">>, <<"e", "t", "c", ".">>,
     <<"e", ".", "g", ".">>}

\* "Dr. Smith went home. He was tired!"
DrSmithText ==
    <<"D", "r", ".", " ", "S", "m", "i", "t", "h", " ", "w", "e", "n",
      "t", " ", "h", "o", "m", "e", ".", " ", "H", "e", " ", "w", "a",
      "s", " ", "t", "i", "r", "e", "d", "!">>

\* Text elements and punctuation runs of the lists reconstruct_sentences is
\* called with, and the abbreviation sets (lowercase, ending in a period).
TextPool == {<<>>, <<" ">>, <<"a">>, <<" ", "A">>, <<"b", " ">>, <<" ", "B">>}
PunctPool == {<<".">>, <<"!">>}
AbbreviationSets ==
    { {},
      {<<"a", ".">>},
      {<<"a", ".">>, <<"b", ".">>},
      {<<"a", ".">>, <<"a", ".", " ", "b", ".">>},
      TestAbbreviations }

\* The lists of exactly n elements: text, punctuation, text, ...
RECURSIVE PotentialListsOf(_)
PotentialListsOf(n) ==
    IF n = 0 THEN {<<>>}
    ELSE {Append(l, e) : l \in PotentialListsOf(n - 1),
                         e \in IF n % 2 = 1 THEN TextPool ELSE PunctPool}

PotentialLists == UNION {PotentialListsOf(n) : n \in 0..MaxParts}

InitReconstruct ==
    /\ pc = "reconstruct_sentences"
    /\ document = <<>>
    /\ text = <<>>
    /\ chunk_size = DefaultChunkSize
    /\ \/ /\ potential_sentences \in PotentialLists
          /\ abbreviations \in AbbreviationSets
       \/ /\ potential_sentences = SplitIntoPotentialSentences(DrSmithText)
          /\ abbreviations = TestAbbreviations
    /\ i = 0
    /\ current_sentence = <<>>
    /\ sentences = <<>>
    /\ pos = 1
    /\ chunks = <<>>
    /\ current_chunk = <<>>
    /\ current_size = 0
    /\ AppIdle

NextReconstruct == ReadPair \/ ReturnSentences

SpecReconstruct == InitReconstruct /\ [][NextReconstruct]_vars

----------------------------------------------------------------------------
(* split_text: the whole pipeline.                                          *)

\* get_common_abbreviations(): the abbreviation table.
CommonAbbreviations ==
    {<<"m", "r", ".">>, <<"d", "r", ".">>, <<"e", "t", "c", ".">>,
     <<"e", ".", "g", ".">>}

\* text = normalize_whitespace(text); abbreviations = get_common_abbreviations()
NormalizeText ==
    /\ pc = "normalize_whitespace"
    /\ text' = NormalizeWhitespace(text)
    /\ abbreviations' = CommonAbbreviations
    /\ pc' = "split_into_potential_sentences"
    /\ UNCHANGED <<document, chunk_size, potential_sentences, i, current_sentence,
                   sentences, pos, chunks, current_chunk, current_size>>
    /\ UNCHANGED appVars

\* The pieces documents are made of.
DocTokens == {<<"D", "r">>, <<"a">>, <<"A">>, <<" ">>, <<"\n">>, <<".">>}

RECURSIVE DocumentsOf(_)
DocumentsOf(n) ==
    IF n = 0 THEN {<<>>}
    ELSE LET shorter == DocumentsOf(n - 1)
         IN  shorter \cup {d \o t : d \in shorter, t \in DocTokens}

Documents == DocumentsOf(MaxDocTokens) \cup {DrSmithText}

Init ==
    /\ pc = "normalize_whitespace"
    /\ document \in Documents
    /\ text = document
    /\ chunk_size \in (1..MaxChunkSize) \cup {DefaultChunkSize}
    /\ abbreviations = {}
    /\ potential_sentences = <<>>
    /\ i = 0
    /\ current_sentence = <<>>
    /\ sentences = <<>>
    /\ pos = 1
    /\ chunks = <<>>
    /\ current_chunk = <<>>
    /\ current_size = 0
    /\ AppIdle

Next ==
    \/ NormalizeText
    \/ SplitText
    \/ ReadPair
    \/ ReturnSentences
    \/ AddSentence
    \/ ReturnChunks

Spec == Init /\ [][Next]_vars


----------------------------------------------------------------------------
(* Claims about create_chunks (checked under SpecPack).                     *)

\* The stripped, non-blank sentences of a list, in order.
NonBlank(list) ==
    SelectSeq([n \in 1..Len(list) |-> Strip(list[n])], LAMBDA s : s # <<>>)

\* The sentences of a list that are not blank, as given.
WithoutBlank(list) == SelectSeq(list, LAMBDA s : Strip(s) # <<>>)

\* cs is a list of joins of consecutive, non-empty groups that make up ss.
RECURSIVE IsGrouping(_, _)
IsGrouping(cs, ss) ==
    IF cs = <<>> THEN ss = <<>>
    ELSE \E n \in 1..Len(ss) :
            /\ Join(SubSeq(ss, 1, n)) = Head(cs)
            /\ IsGrouping(Tail(cs), SubSeq(ss, n + 1, Len(ss)))

HasDoubleSpace(s) == \E n \in 1..(Len(s) - 1) : s[n] = " " /\ s[n + 1] = " "

Oversized(s) == Len(s) > chunk_size

\* C1: every chunk made of two or more sentences has joined length <= chunk_size
\* (current_chunk holds the sentences of the chunk being built, and every chunk
\* of the output is the join of current_chunk at the moment it is closed); a
\* chunk of the output longer than chunk_size is one input sentence alone.
C1_ChunkWithinSize ==
    /\ Len(current_chunk) >= 2 => Len(Join(current_chunk)) <= chunk_size
    /\ pc = "done" =>
          \A n \in DOMAIN chunks :
              Len(chunks[n]) > chunk_size =>
                  \E k \in DOMAIN sentences : Strip(sentences[k]) = chunks[n]

\* C2: the chunks are the joins of consecutive groups of the stripped non-blank
\* input sentences, in order: while the loop runs, the closed chunks group the
\* processed sentences that are not in current_chunk, and current_chunk holds
\* the rest; on return the chunks group the whole list.
C2_ChunksCoverSentences ==
    /\ pc = "create_chunks" =>
          LET seen == NonBlank(SubSeq(sentences, 1, pos - 1))
              kept == Len(seen) - Len(current_chunk)
          IN  /\ kept >= 0
              /\ SubSeq(seen, kept + 1, Len(seen)) = current_chunk
              /\ IsGrouping(chunks, SubSeq(seen, 1, kept))
    /\ pc = "done" => IsGrouping(chunks, NonBlank(sentences))

\* C2 witness: a finished run with several chunks, one of them of two sentences.
C2_Witness ==
    /\ pc = "done"
    /\ Len(chunks) >= 2
    /\ Len(NonBlank(sentences)) > Len(chunks)

\* C8: no chunk is empty or whitespace-only, no chunk starts or ends with a
\* space, the join introduces no doubled space, and the output is the output
\* for the list without its blank sentences.
C8_BlankSentencesSkipped ==
    pc = "done" =>
        /\ \A n \in DOMAIN chunks :
              /\ Strip(chunks[n]) # <<>>
              /\ Strip(chunks[n]) = chunks[n]
        /\ (\A k \in DOMAIN sentences : ~HasDoubleSpace(Strip(sentences[k])))
              => \A n \in DOMAIN chunks : ~HasDoubleSpace(chunks[n])
        /\ chunks = CreateChunks(WithoutBlank(sentences), chunk_size)

\* C8 witness: a blank sentence between two sentences that share one chunk.
C8_Witness ==
    /\ pc = "done"
    /\ Len(chunks) = 1
    /\ \E a, b, c \in DOMAIN sentences :
          /\ a < b /\ b < c
          /\ Strip(sentences[a]) # <<>>
          /\ Strip(sentences[b]) = <<>>
          /\ Strip(sentences[c]) # <<>>

\* C9: a sentence longer than chunk_size is alone in its chunk, and is a chunk
\* of the output as it is (stripped).
C9_OversizedAlone ==
    /\ \A n \in DOMAIN current_chunk :
          Oversized(current_chunk[n]) => Len(current_chunk) = 1
    /\ pc = "done" =>
          \A k \in DOMAIN sentences :
              Oversized(Strip(sentences[k])) =>
                  \E n \in DOMAIN chunks : chunks[n] = Strip(sentences[k])

\* C9 witness: an oversized sentence with a non-blank sentence before and after.
C9_Witness ==
    /\ pc = "done"
    /\ \E k \in DOMAIN sentences :
          /\ Oversized(Strip(sentences[k]))
          /\ k > 1 /\ Strip(sentences[k - 1]) # <<>>
          /\ k < Len(sentences) /\ Strip(sentences[k + 1]) # <<>>

\* The sentence the loop of create_chunks is about to read, stripped.
NextSentence == Strip(sentences[pos])

\* The joined length of the current chunk with the next sentence appended.
JoinedLengthWithNext == Len(Join(Append(current_chunk, NextSentence)))

\* A step of the loop that reads a non-blank sentence.
ReadsNonBlank ==
    /\ pc = "create_chunks"
    /\ pos <= Len(sentences)
    /\ pos' = pos + 1
    /\ NextSentence # <<>>

\* C18: a step that reads a non-blank sentence closes the current chunk only
\* if that chunk is non-empty and the sentence, appended after one space,
\* would make its joined length exceed chunk_size; if the joined length stays
\* <= chunk_size the sentence is appended and no chunk is closed; a sentence
\* of length chunk_size after one of length chunk_size starts a new chunk; and
\* the sentences of 21, 21 and 23 characters pack as two and one for size 50.
C18_NoPrematureClosing ==
    /\ [][ReadsNonBlank =>
            /\ Len(chunks') > Len(chunks) =>
                  (current_chunk # <<>> /\ JoinedLengthWithNext > chunk_size)
            /\ JoinedLengthWithNext <= chunk_size =>
                  /\ chunks' = chunks
                  /\ current_chunk' = Append(current_chunk, NextSentence)
            /\ ( /\ current_chunk # <<>>
                 /\ Len(current_chunk[Len(current_chunk)]) = chunk_size
                 /\ Len(NextSentence) = chunk_size ) =>
                  /\ chunks' = Append(chunks, Join(current_chunk))
                  /\ current_chunk' = <<NextSentence>>]_vars
    /\ []((pc = "done" /\ sentences = BasicSentences /\ chunk_size = 50) =>
            chunks = <<Join(SubSeq(BasicSentences, 1, 2)), BasicSentences[3]>>)

\* C18 witness: a run of three sentences in which the third was appended to
\* the second chunk with the joined length reaching chunk_size exactly.
C18_Witness ==
    /\ pc = "done"
    /\ chunk_size = 3
    /\ sentences = <<<<"a", "a">>, <<"a">>, <<"a">>>>
    /\ chunks = <<<<"a", "a">>, <<"a", " ", "a">>>>

----------------------------------------------------------------------------
(* Claims about split_into_potential_sentences (checked under SpecSplit).   *)

Capitals == {UpperChars[n] : n \in DOMAIN UpperChars}

RECURSIVE Concat(_)
Concat(list) == IF list = <<>> THEN <<>> ELSE Head(list) \o Concat(Tail(list))

\* Where element k of a split of the text starts in the text (1-based).
StartOf(list, k) == Len(Concat(SubSeq(list, 1, k - 1))) + 1

\* The places <<first, last>> of the elements at odd 0-based positions.
PunctuationPlaces(list) ==
    {<<StartOf(list, k), StartOf(list, k) + Len(list[k]) - 1>> :
        k \in {m \in DOMAIN list : m % 2 = 0}}

\* The maximal runs of '.', '!', '?' of s that are followed by whitespace and
\* an uppercase letter, or by nothing but whitespace up to the end.
BoundaryRuns(s) ==
    {r \in (1..Len(s)) \X (1..Len(s)) :
        /\ r[1] <= r[2]
        /\ \A q \in r[1]..r[2] : s[q] \in {".", "!", "?"}
        /\ r[1] = 1 \/ s[r[1] - 1] \notin {".", "!", "?"}
        /\ r[2] = Len(s) \/ s[r[2] + 1] \notin {".", "!", "?"}
        /\ \/ \E q \in (r[2] + 2)..Len(s) :
                 /\ s[q] \in Capitals
                 /\ \A w \in (r[2] + 1)..(q - 1) : s[w] \in {" ", "\t", "\n"}
           \/ \A w \in (r[2] + 1)..Len(s) : s[w] \in {" ", "\t", "\n"}}

SplitReturned == pc = "reconstruct_sentences"

\* C6: the elements at odd positions of the output are exactly the maximal
\* punctuation runs of the text that are followed by whitespace and an
\* uppercase letter or by optional whitespace and the end of the string, each
\* at its place; everything else is in the text elements.
C6_BoundaryRunsSplit ==
    SplitReturned =>
        /\ Concat(potential_sentences) = text
        /\ PunctuationPlaces(potential_sentences) = BoundaryRuns(text)

\* C6 witness: a text with a punctuation run that is no boundary (it stays in
\* a text element) and one of two characters that is.
C6_Witness ==
    /\ SplitReturned
    /\ \E k \in DOMAIN potential_sentences :
          /\ k % 2 = 1
          /\ \E q \in DOMAIN potential_sentences[k] :
                potential_sentences[k][q] \in {".", "!", "?"}
    /\ \E k \in DOMAIN potential_sentences :
          k % 2 = 0 /\ Len(potential_sentences[k]) = 2

\* C7: the output has 2k+1 elements for k boundaries, the elements at odd
\* positions are non-empty punctuation runs, the empty text gives [""], a
\* text without a boundary gives [text], and a boundary at the very end of
\* the text gives an empty last element.
C7_OddAlternating ==
    SplitReturned =>
        /\ Len(potential_sentences) = 2 * Cardinality(BoundaryRuns(text)) + 1
        /\ \A k \in DOMAIN potential_sentences :
              k % 2 = 0 =>
                  /\ potential_sentences[k] # <<>>
                  /\ \A q \in DOMAIN potential_sentences[k] :
                        potential_sentences[k][q] \in {".", "!", "?"}
        /\ Concat(potential_sentences) = text
        /\ text = <<>> => potential_sentences = << <<>> >>
        /\ BoundaryRuns(text) = {} => potential_sentences = <<text>>
        /\ (text # <<>> /\ text[Len(text)] \in {".", "!", "?"})
              => potential_sentences[Len(potential_sentences)] = <<>>

\* C7 witness: two boundaries, the second at the very end of the text.
C7_Witness ==
    /\ SplitReturned
    /\ Len(potential_sentences) = 5
    /\ potential_sentences[5] = <<>>

----------------------------------------------------------------------------
(* Claims about reconstruct_sentences (checked under SpecReconstruct).      *)

\* t ends, case-insensitively, with a member of abbrs.
EndsWithAbbreviation(t, abbrs) ==
    \E abbr \in abbrs :
        /\ Len(abbr) <= Len(t)
        /\ \A k \in 1..Len(abbr) :
              LET c == t[Len(t) - Len(abbr) + k]
              IN  \/ c = abbr[k]
                  \/ \E n \in DOMAIN UpperChars :
                        UpperChars[n] = c /\ LowerChars[n] = abbr[k]

\* Text (trimmed) and punctuation of the pair at 0-based index n.
Fragment(ps, n) == Strip(ps[n + 1]) \o ps[n + 2]

\* The reference of C3: the pairs before index upto, each decided by testing
\* the whole accumulated span (buffer + text + punctuation).
RECURSIVE WholeSpanPairs(_, _, _, _, _)
WholeSpanPairs(st, ps, n, upto, abbrs) ==
    IF n >= upto THEN st
    ELSE LET span == st.current_sentence \o Fragment(ps, n)
         IN  WholeSpanPairs(
                 IF EndsWithAbbreviation(span, abbrs)
                 THEN [sentences |-> st.sentences,
                       current_sentence |-> span \o <<" ">>]
                 ELSE [sentences |-> Append(st.sentences, Strip(span)),
                       current_sentence |-> <<>>],
                 ps, n + 2, upto, abbrs)

\* The rule of C4: the pairs before index upto, each decided by testing the
\* pair's own text + punctuation.
RECURSIVE FragmentPairs(_, _, _, _, _)
FragmentPairs(st, ps, n, upto, abbrs) ==
    IF n >= upto THEN st
    ELSE LET span == st.current_sentence \o Fragment(ps, n)
         IN  FragmentPairs(
                 IF EndsWithAbbreviation(Fragment(ps, n), abbrs)
                 THEN [sentences |-> st.sentences,
                       current_sentence |-> span \o <<" ">>]
                 ELSE [sentences |-> Append(st.sentences, Strip(span)),
                       current_sentence |-> <<>>],
                 ps, n + 2, upto, abbrs)

NoPairs == [sentences |-> <<>>, current_sentence |-> <<>>]

IsPrefix(a, b) == Len(a) <= Len(b) /\ SubSeq(b, 1, Len(a)) = a

SentencesReturned == pc = "create_chunks"

\* C3: at every pair the boundary is suppressed exactly when the lowercase
\* form of buffer + text + punctuation ends with an abbreviation: the
\* sentences and the buffer after each pair are those of that reference test.
C3_WholeSpanDecision ==
    pc = "reconstruct_sentences" =>
        ReconstructState
            = WholeSpanPairs(NoPairs, potential_sentences, 0, i, abbreviations)

\* C4: at every pair, if text + punctuation ends case-insensitively with an
\* abbreviation no sentence is emitted and the pair, followed by one space,
\* joins the buffer, which is part of the sentence emitted later; otherwise
\* buffer + text + punctuation, trimmed, is emitted as one sentence ending
\* with the punctuation, and the buffer is emptied.  "Dr. Smith went home. He
\* was tired!" gives the two sentences "Dr. Smith went home.", "He was tired!".
C4_PairRule ==
    /\ pc = "reconstruct_sentences" =>
          /\ ReconstructState
                = FragmentPairs(NoPairs, potential_sentences, 0, i, abbreviations)
          /\ (i >= 2 /\ current_sentence = <<>>) =>
                /\ sentences # <<>>
                /\ EndsWith(sentences[Len(sentences)], potential_sentences[i])
    /\ (SentencesReturned /\ current_sentence # <<>>) =>
          /\ sentences # <<>>
          /\ IsPrefix(RStrip(current_sentence), sentences[Len(sentences)])
    /\ (SentencesReturned
          /\ potential_sentences = SplitIntoPotentialSentences(DrSmithText)
          /\ abbreviations = TestAbbreviations) =>
          sentences = <<<<"D", "r", ".", " ", "S", "m", "i", "t", "h", " ", "w", "e", "n", "t", " ", "h", "o", "m", "e", ".">>,
                        <<"H", "e", " ", "w", "a", "s", " ", "t", "i", "r", "e", "d", "!">>>>

\* C4 witness: the example has been reconstructed, with one boundary
\* suppressed and two sentences emitted.
C4_Witness ==
    /\ SentencesReturned
    /\ potential_sentences = SplitIntoPotentialSentences(DrSmithText)
    /\ Len(potential_sentences) = 7
    /\ Len(sentences) = 2

\* C5: after the pairs, the final sentence is trim(buffer + leftover), where
\* leftover is the last element of an odd-length input and empty for an
\* even-length one, and it is emitted only if it is not empty.
C5_FinalSentence ==
    SentencesReturned =>
        LET st == ReconstructPairs(EmptyReconstruct, potential_sentences, 0,
                                   abbreviations)
            leftover == IF Len(potential_sentences) % 2 = 1
                        THEN potential_sentences[Len(potential_sentences)]
                        ELSE <<>>
            final == Strip(st.current_sentence \o leftover)
        IN  sentences = IF final # <<>> THEN Append(st.sentences, final)
                        ELSE st.sentences

----------------------------------------------------------------------------
(* Claims about split_text (checked under Spec).                            *)

\* C10: the empty document normalizes to "", splits to [""], reconstructs to
\* no sentence and packs to no chunk, for every chunk_size.
C10_EmptyDocument ==
    document = <<>> =>
        /\ pc # "normalize_whitespace" => text = <<>>
        /\ pc \in {"reconstruct_sentences", "create_chunks", "done"}
              => potential_sentences = << <<>> >>
        /\ pc \in {"create_chunks", "done"} => sentences = <<>>
        /\ pc = "done" => chunks = <<>>

\* C10 witness: split_text("") has returned.
C10_Witness == pc = "done" /\ document = <<>> /\ chunks = <<>>

\* The characters of a string that are no whitespace, in order.
NonWhitespace(s) == SelectSeq(s, LAMBDA c : c \notin Whitespace)

\* C19: the non-whitespace characters of the returned chunks, concatenated in
\* order, are the non-whitespace characters of the document, in order; so a
\* document of whitespace only yields no chunk.
C19_TextPreserved ==
    pc = "done" =>
        /\ NonWhitespace(Concat(chunks)) = NonWhitespace(document)
        /\ NonWhitespace(document) = <<>> => chunks = <<>>

\* C19 witness: a document that ends in the abbreviation "Dr." after a word
\* and a line break has been split, and the abbreviation was emitted.
C19_Witness ==
    /\ pc = "done"
    /\ document = <<"a", "\n", "D", "r", ".">>
    /\ chunks = <<<<"a", " ", "D", "r", ".">>>>


----------------------------------------------------------------------------
(* normalize_whitespace called on its own, and again on what it returned.   *)

NormalizeAlphabet == {"a", "b", " ", "\t", "\n"}

\* text = normalize_whitespace(text)
CallNormalizeWhitespace ==
    /\ pc = "call_normalize_whitespace"
    /\ text' = NormalizeWhitespace(text)
    /\ returned' = Some(text')
    /\ pc' = "call_normalize_whitespace_again"
    /\ UNCHANGED <<document, chunk_size, abbreviations, potential_sentences, i,
                   current_sentence, sentences, pos, chunks, current_chunk,
                   current_size>>
    /\ UNCHANGED <<raised, apiVars, readerVars, csvVars, convVars, ingestVars>>

\* normalize_whitespace(text), text being what the first call returned
CallNormalizeWhitespaceAgain ==
    /\ pc = "call_normalize_whitespace_again"
    /\ returned' = Some(NormalizeWhitespace(text))
    /\ pc' = "normalized_twice"
    /\ UNCHANGED chunkerVars
    /\ UNCHANGED <<raised, apiVars, readerVars, csvVars, convVars, ingestVars>>

InitNormalize ==
    /\ pc = "call_normalize_whitespace"
    /\ document \in StringsUpTo(NormalizeAlphabet, MaxTextLen)
    /\ text = document
    /\ chunk_size = 0
    /\ abbreviations = {}
    /\ potential_sentences = <<>>
    /\ i = 0
    /\ current_sentence = <<>>
    /\ sentences = <<>>
    /\ pos = 1
    /\ chunks = <<>>
    /\ current_chunk = <<>>
    /\ current_size = 0
    /\ AppIdle

NextNormalize ==
    \/ CallNormalizeWhitespace
    \/ CallNormalizeWhitespaceAgain

SpecNormalize == InitNormalize /\ [][NextNormalize]_vars

----------------------------------------------------------------------------
(* Claims about normalize_whitespace (checked under SpecNormalize).         *)

\* The places of s that survive: every non-whitespace character and the first
\* character of every maximal whitespace run.
KeptPlaces(s) ==
    {k \in 1..Len(s) : s[k] \notin Whitespace \/ k = 1 \/ s[k - 1] \notin Whitespace}

\* The n-th surviving place of s.
KeptPlace(s, n) ==
    CHOOSE k \in KeptPlaces(s) : Cardinality({j \in KeptPlaces(s) : j <= k}) = n

NormalizedOnce == pc # "call_normalize_whitespace"

\* C11: the result is the document with every maximal whitespace run replaced
\* by one space and every other character kept in place; so it holds no
\* whitespace but ' ', no two adjacent spaces, starts (ends) with one space
\* when the document starts (ends) with whitespace, and is "" for "".
C11_RunsBecomeOneSpace ==
    NormalizedOnce =>
        /\ Len(text) = Cardinality(KeptPlaces(document))
        /\ \A n \in 1..Len(text) :
              LET c == document[KeptPlace(document, n)]
              IN  text[n] = IF c \in Whitespace THEN " " ELSE c
        /\ \A n \in 1..Len(text) : text[n] \in Whitespace => text[n] = " "
        /\ ~HasDoubleSpace(text)
        /\ (document # <<>> /\ document[1] \in Whitespace) =>
              (text[1] = " " /\ (Len(text) > 1 => text[2] # " "))
        /\ (document # <<>> /\ document[Len(document)] \in Whitespace) =>
              text[Len(text)] = " "
        /\ document = <<>> => text = <<>>

\* C11 witness: a document with a leading run of two different whitespace
\* characters and a trailing tab has been normalized.
C11_Witness ==
    /\ NormalizedOnce
    /\ document = <<"\n", " ", "a", "\t">>
    /\ text = <<" ", "a", " ">>

\* C12: normalizing what normalize_whitespace returned returns it unchanged.
C12_Idempotent == pc = "normalized_twice" => returned = Some(text)

\* C12 witness: the second call has returned, in a run whose first call
\* collapsed a run of four whitespace characters.
C12_Witness ==
    /\ pc = "normalized_twice"
    /\ document = <<" ", "\t", "\n", " ">>
    /\ returned = Some(<<" ">>)

----------------------------------------------------------------------------
(* The chat-completion calls                                                *)
(* (src/src/rag_from_scratch/services/openai_service.py).                   *)

\* The base class of each exception class of the openai package.
ExceptionBases ==
    [RateLimitError |-> "APIStatusError",
     APIStatusError |-> "APIError",
     APITimeoutError |-> "APIConnectionError",
     APIConnectionError |-> "APIError",
     APIError |-> "OpenAIError",
     OpenAIError |-> "Exception"]

\* isinstance(e, base) for an exception e of class cls: what an except clause
\* tests.
RECURSIVE IsInstance(_, _)
IsInstance(cls, base) ==
    \/ cls = base
    \/ cls \in DOMAIN ExceptionBases /\ IsInstance(ExceptionBases[cls], base)

\* A try statement's except clauses with the generic clause first.
GenericFirstHandlers ==
    <<[catches |-> "APIError",
       error_msg |-> "API error occurred. Please try again later."],
      [catches |-> "RateLimitError",
       error_msg |-> "Rate limit exceeded. Please try again later."],
      [catches |-> "APITimeoutError",
       error_msg |-> "Request timed out. Please try again."]>>

\* generate_response: the except clauses, in order
GenerateResponseHandlers ==
    <<[catches |-> "RateLimitError",
       error_msg |-> "Rate limit exceeded. Please try again later."],
      [catches |-> "APITimeoutError",
       error_msg |-> "Request timed out. Please try again."],
      [catches |-> "APIError",
       error_msg |-> "API error occurred. Please try again later."]>>

\* contextualize_query: the except clauses, in order
ContextualizeQueryHandlers ==
    <<[catches |-> "RateLimitError",
       error_msg |-> "Rate limit exceeded. Please try again later."],
      [catches |-> "APITimeoutError",
       error_msg |-> "Request timed out. Please try again."],
      [catches |-> "APIError",
       error_msg |-> "API error occurred. Please try again later."]>>

\* What client.chat.completions.create can do: return a completion with some
\* content, or raise an exception of some class.
ResponseContents == {"answer", "I cannot answer this based on the provided information."}
RaisedClasses ==
    {"RateLimitError", "APITimeoutError", "APIConnectionError", "APIStatusError",
     "APIError", "OpenAIError", "Exception"}
CompletionOutcomes ==
    {<<"content", c>> : c \in ResponseContents} \cup
    {<<"raise", e>> : e \in RaisedClasses}

\* try: return <content> except ...: the first except clause that matches the
\* raised exception returns its message; an exception no clause matches leaves
\* the function.
TryCompletion(handlers, outcome) ==
    IF outcome[1] = "content"
    THEN [returned |-> Some(outcome[2]), raised |-> None]
    ELSE LET matching == {n \in 1..Len(handlers) :
                            IsInstance(outcome[2], handlers[n].catches)}
         IN  IF matching = {}
             THEN [returned |-> None, raised |-> Some(outcome[2])]
             ELSE LET first == CHOOSE n \in matching : \A k \in matching : n <= k
                  IN  [returned |-> Some(handlers[first].error_msg),
                       raised |-> None]

\* get_prompt / get_prompt_with_history: the template and what fills it
GetPrompt(ctx, q) == <<"get_prompt", ctx, q>>
GetPromptWithHistory(ctx, history, q) == <<"get_prompt_with_history", ctx, history, q>>

\* generate_response(query, context, conversation_history)
GenerateResponse ==
    /\ pc = "generate_response"
    /\ prompt' = Some(IF conversation_history = None
                      THEN GetPrompt(context, query)
                      ELSE GetPromptWithHistory(context, conversation_history[1],
                                                query))
    /\ \E outcome \in CompletionOutcomes :
          /\ completion' = Some(outcome)
          /\ returned' = TryCompletion(GenerateResponseHandlers, outcome).returned
          /\ raised' = TryCompletion(GenerateResponseHandlers, outcome).raised
    /\ pc' = "generate_response_done"
    /\ UNCHANGED <<query, context, conversation_history, search_results>>
    /\ UNCHANGED <<chunkerVars, readerVars, csvVars, convVars, ingestVars>>

\* contextualize_query(query, conversation_history)
ContextualizeQuery ==
    /\ pc = "contextualize_query"
    /\ prompt' = Some(<<"contextualize", conversation_history[1], query>>)
    /\ \E outcome \in CompletionOutcomes :
          /\ completion' = Some(outcome)
          /\ returned' = TryCompletion(ContextualizeQueryHandlers, outcome).returned
          /\ raised' = TryCompletion(ContextualizeQueryHandlers, outcome).raised
    /\ pc' = "contextualize_query_done"
    /\ UNCHANGED <<query, context, conversation_history, search_results>>
    /\ UNCHANGED <<chunkerVars, readerVars, csvVars, convVars, ingestVars>>

Queries == {"what is it?", "and then?"}
Contexts == {"", "chunk one\n\nchunk two"}
Histories == {"", "Human: what is it?\nAssistant: answer"}

InitApi ==
    /\ pc \in {"generate_response", "contextualize_query"}
    /\ query \in Queries
    /\ context \in IF pc = "generate_response" THEN Contexts ELSE {""}
    /\ conversation_history \in
          {Some(h) : h \in Histories} \cup
          (IF pc = "generate_response" THEN {None} ELSE {})
    /\ prompt = None
    /\ completion = None
    /\ search_results = None
    /\ CallIdle /\ ReaderIdle /\ CsvIdle /\ ConvIdle /\ IngestIdle
    /\ ChunkerIdle

NextApi ==
    \/ GenerateResponse
    \/ ContextualizeQuery

SpecApi == InitApi /\ [][NextApi]_vars

----------------------------------------------------------------------------
(* Claims about the chat-completion calls (checked under SpecApi).          *)

\* The exception the completion call raised, "" if it raised none.
CompletionRaised ==
    IF completion # None /\ completion[1][1] = "raise" THEN completion[1][2] ELSE ""

\* The message the claim gives to each failure kind.
RateLimitMessage == "Rate limit exceeded. Please try again later."
TimeoutMessage == "Request timed out. Please try again."
GenericMessage == "API error occurred. Please try again later."

\* The API errors that are neither a rate limit nor a timeout.
OtherApiErrors == {"APIError", "APIStatusError", "APIConnectionError"}

\* C13: when the completion call fails with a rate limit, a timeout or another
\* API error, generate_response and contextualize_query raise nothing and
\* return the message of that kind; the three messages differ, so a rate limit
\* or a timeout is never reported with the generic message.
C13_ApiErrorsBecomeMessages ==
    /\ Cardinality({RateLimitMessage, TimeoutMessage, GenericMessage}) = 3
    /\ pc \in {"generate_response_done", "contextualize_query_done"} =>
        /\ CompletionRaised = "RateLimitError" =>
              (raised = None /\ returned = Some(RateLimitMessage))
        /\ CompletionRaised = "APITimeoutError" =>
              (raised = None /\ returned = Some(TimeoutMessage))
        /\ CompletionRaised \in OtherApiErrors =>
              (raised = None /\ returned = Some(GenericMessage))

\* C13 witness: generate_response has returned after a timeout of the
\* completion call.
C13_Witness ==
    /\ pc = "generate_response_done"
    /\ CompletionRaised = "APITimeoutError"
    /\ returned = Some(TimeoutMessage)

----------------------------------------------------------------------------
(* The document readers                                                     *)
(* (src/src/rag_from_scratch/core/document_processing.py).                  *)

\* Path(file_path).suffix of a file name: the part from the last dot on, unless
\* that dot starts or ends the name.
Suffix(name) ==
    LET dots == {p \in 1..Len(name) : name[p] = "."}
    IN  IF dots = {} THEN <<>>
        ELSE LET last == CHOOSE p \in dots : \A q \in dots : q <= p
             IN  IF 1 < last /\ last < Len(name)
                 THEN SubSeq(name, last, Len(name))
                 ELSE <<>>

\* file_extension = file_path.suffix, the case of the letters kept.
FileExtensionAsWritten(path) == Suffix(path)

\* file_extension = file_path.suffix.lower()
FileExtension(path) == Lower(Suffix(path))

\* DocumentReaderFactory._readers
Readers ==
    (<<".", "t", "x", "t">> :> "TextReader") @@
    (<<".", "p", "d", "f">> :> "PDFReader") @@
    (<<".", "d", "o", "c", "x">> :> "DocxReader")

\* DocumentReaderFactory.get_reader(file_path): the reader made, or the
\* exception raised.
GetReaderResult(path) ==
    LET file_extension == FileExtension(path)
    IN  IF file_extension \in DOMAIN Readers
        THEN [returned |-> Some(Readers[file_extension]), raised |-> None]
        ELSE [returned |-> None,
              raised |-> Some(<<"ValueError", "Unsupported file format: ",
                                file_extension>>)]

\* What reader.read(file_path) can do: return the text it finds in the file,
\* or raise.
FileTexts == {<<>>, <<"a", ".">>}
ReadErrors == {<<"FileNotFoundError">>, <<"UnicodeDecodeError">>}
ReadOutcomes ==
    {<<"content", c>> : c \in FileTexts} \cup {<<"raise", e>> : e \in ReadErrors}

\* DocumentReaderFactory.get_reader(file_path), called directly
GetReader ==
    /\ pc = "get_reader"
    /\ returned' = GetReaderResult(file_path).returned
    /\ raised' = GetReaderResult(file_path).raised
    /\ pc' = "get_reader_done"
    /\ UNCHANGED <<file_path, reader, reads>>
    /\ UNCHANGED <<chunkerVars, apiVars, csvVars, convVars, ingestVars>>

\* DocumentReaderFactory.read_document(file_path)
ReadDocument ==
    /\ pc = "read_document"
    /\ LET got == GetReaderResult(file_path)
       IN  IF got.raised # None
           THEN /\ raised' = got.raised
                /\ returned' = None
                /\ UNCHANGED <<reader, reads>>
           ELSE /\ reader' = got.returned
                /\ \E outcome \in ReadOutcomes :
                      /\ reads' = Append(reads, [reader |-> got.returned[1],
                                                 file_path |-> file_path,
                                                 outcome |-> outcome])
                      /\ IF outcome[1] = "content"
                         THEN returned' = Some(outcome[2]) /\ raised' = None
                         ELSE returned' = None /\ raised' = Some(outcome[2])
    /\ pc' = "read_document_done"
    /\ UNCHANGED file_path
    /\ UNCHANGED <<chunkerVars, apiVars, csvVars, convVars, ingestVars>>

\* The file names the readers are asked for: a stem and an extension.
FileStems == {<<"a">>, <<"a", ".", "b">>, <<".", "a">>, <<>>}
FileSuffixes ==
    {<<".", "t", "x", "t">>,
     <<".", "T", "X", "T">>,
     <<".", "T", "x", "t">>,
     <<".", "p", "d", "f">>,
     <<".", "P", "D", "F">>,
     <<".", "d", "o", "c", "x">>,
     <<".", "D", "o", "c", "X">>,
     <<".", "m", "d">>,
     <<".", "u", "n", "s", "u", "p", "p", "o", "r", "t", "e", "d">>,
     <<".", "t", "x", "t", "2">>,
     <<>>}
FileNames == {stem \o ext : stem \in FileStems, ext \in FileSuffixes} \ {<<>>}

InitReader ==
    /\ pc \in {"get_reader", "read_document"}
    /\ file_path \in FileNames
    /\ reader = None
    /\ reads = <<>>
    /\ CallIdle /\ ApiIdle /\ CsvIdle /\ ConvIdle /\ IngestIdle
    /\ ChunkerIdle

NextReader ==
    \/ GetReader
    \/ ReadDocument

SpecReader == InitReader /\ [][NextReader]_vars

----------------------------------------------------------------------------
(* Claims about the document readers (checked under SpecReader).            *)

\* The extension of a file name: its last part e, starting with the only dot
\* of e, where that dot is neither the first nor the last character of the
\* name; no such part, no extension.
ExtensionOf(name) ==
    LET parts == {p \in 2..(Len(name) - 1) :
                    /\ name[p] = "."
                    /\ \A q \in (p + 1)..Len(name) : name[q] # "."}
    IN  IF parts = {} THEN <<>>
        ELSE SubSeq(name, CHOOSE p \in parts : TRUE, Len(name))

\* Two strings are equal up to the case of their letters.
SameIgnoringCase(s, t) ==
    /\ Len(s) = Len(t)
    /\ \A n \in 1..Len(s) :
          \/ s[n] = t[n]
          \/ \E k \in DOMAIN UpperChars :
                {s[n], t[n]} = {UpperChars[k], LowerChars[k]}

\* The reader class the claim gives to each extension.
ReaderOfExtension ==
    {<<<<".", "t", "x", "t">>, "TextReader">>,
     <<<<".", "p", "d", "f">>, "PDFReader">>,
     <<<<".", "d", "o", "c", "x">>, "DocxReader">>}

\* The reader classes the claim selects for a file name (one or none).
SelectedFor(name) ==
    {re[2] : re \in {x \in ReaderOfExtension :
                        SameIgnoringCase(ExtensionOf(name), x[1])}}

\* C17: get_reader returns a TextReader, PDFReader or DocxReader for the
\* extension .txt, .pdf or .docx in any case, and for every other extension or
\* none raises ValueError "Unsupported file format: <ext>" with no read made;
\* read_document then makes one read, by the selected reader on the file, and
\* returns what that read returned.
C17_ReaderByExtension ==
    /\ pc \in {"get_reader_done", "read_document_done"} /\ SelectedFor(file_path) = {} =>
          /\ returned = None
          /\ reads = <<>>
          /\ raised # None
          /\ raised[1][1] = "ValueError"
          /\ raised[1][2] = "Unsupported file format: "
          /\ SameIgnoringCase(raised[1][3], ExtensionOf(file_path))
    /\ pc = "get_reader_done" /\ SelectedFor(file_path) # {} =>
          /\ raised = None
          /\ reads = <<>>
          /\ returned # None
          /\ SelectedFor(file_path) = {returned[1]}
    /\ pc = "read_document_done" /\ SelectedFor(file_path) # {} =>
          /\ Len(reads) = 1
          /\ SelectedFor(file_path) = {reads[1].reader}
          /\ reads[1].file_path = file_path
          /\ reads[1].outcome[1] = "content" =>
                (returned = Some(reads[1].outcome[2]) /\ raised = None)

\* C17 witness: read_document on a file with extension .PDF has returned the
\* text a PDFReader read.
C17_Witness ==
    /\ pc = "read_document_done"
    /\ file_path = <<"a", ".", "b", ".", "P", "D", "F">>
    /\ Len(reads) = 1
    /\ reads[1].reader = "PDFReader"
    /\ returned = Some(<<"a", ".">>)

----------------------------------------------------------------------------
(* Ingestion of a folder into the vector store                              *)
(* (src/rag_from_sratch/chroma_processing.py).                              *)

MaxFiles == 3
MaxRuns == 2

\* add_to_collection: batch_size
BatchSize == 100

\* The numbers of chunks split_text makes of a file's content: none, one, and
\* more than one batch.
ChunkCounts == {0, 1, BatchSize + 1}

IngestNames ==
    {<<"a", ".", "t", "x", "t">>, <<"b", ".", "P", "D", "F">>,
     <<"d", ".", "d", "o", "c", "x">>, <<"c", ".", "m", "d">>}

\* What can be found under a name of the folder: a directory, a file that is
\* gone when it is processed, a file whose read raises a ValueError or another
\* exception, or a file whose content splits into some number of chunks (under
\* a name no reader is registered for, a file of one chunk).
EntriesNamed(name) ==
    IF Lower(Suffix(name)) \notin DOMAIN Readers
    THEN {[name |-> name, is_file |-> TRUE, exists |-> TRUE, read |-> "content",
           chunks |-> 1]}
    ELSE
    {[name |-> name, is_file |-> FALSE, exists |-> TRUE, read |-> "content",
      chunks |-> 0],
     [name |-> name, is_file |-> TRUE, exists |-> FALSE, read |-> "content",
      chunks |-> 0],
     [name |-> name, is_file |-> TRUE, exists |-> TRUE, read |-> "ValueError",
      chunks |-> 0],
     [name |-> name, is_file |-> TRUE, exists |-> TRUE, read |-> "OSError",
      chunks |-> 0]} \cup
    {[name |-> name, is_file |-> TRUE, exists |-> TRUE, read |-> "content",
      chunks |-> n] : n \in ChunkCounts}

\* folder_path.iterdir(): the entries of a folder, no two of one name, in the
\* order the directory gives them.
RECURSIVE EntryLists(_)
EntryLists(n) ==
    IF n = 0 THEN {<<>>}
    ELSE LET shorter == EntryLists(n - 1)
         IN  shorter \cup
             {Append(es, e) :
                es \in {x \in shorter : Len(x) = n - 1},
                e \in UNION {EntriesNamed(name) : name \in IngestNames}}

DistinctNames(es) ==
    \A a, b \in 1..Len(es) : es[a].name = es[b].name => a = b

Folders ==
    {[is_dir |-> FALSE, entries |-> <<>>]} \cup
    {[is_dir |-> TRUE, entries |-> es] :
        es \in {x \in EntryLists(MaxFiles) : DistinctNames(x)}}

\* The entry of the folder with a given name.
EntryOf(dir, name) ==
    LET n == CHOOSE k \in 1..Len(dir.entries) : dir.entries[k].name = name
    IN  dir.entries[n]

\* get_processed_files(collection): the sources in the metadata of get()
GetProcessedFiles(coll) == {coll[n].source : n \in 1..Len(coll)}

\* get_supported_extensions()
SupportedExtensions == DOMAIN Readers

\* The third condition of the filter of files, left out.
IsNewFileAlways(name, processed) == TRUE

\* file.name not in processed_files
IsNewFile(name, processed) == name \notin processed

\* files = [file for file in folder_path.iterdir() if ...]
FilesToProcess(dir, processed) ==
    LET kept == SelectSeq(dir.entries,
                          LAMBDA e : /\ e.is_file
                                     /\ Lower(Suffix(e.name)) \in SupportedExtensions
                                     /\ IsNewFile(e.name, processed))
    IN  [n \in 1..Len(kept) |-> kept[n].name]

\* process_document(file_path): the number of chunks it returns ids, texts and
\* metadata for, or the exception it raises.
ProcessDocument(entry) ==
    IF ~entry.exists
    THEN [raised |-> Some(<<"DocumentProcessingError", "File not found">>),
          chunks |-> 0]
    ELSE IF GetReaderResult(entry.name).raised # None \/ entry.read = "ValueError"
    THEN [raised |-> Some(<<"DocumentProcessingError", "Unsupported file format">>),
          chunks |-> 0]
    ELSE IF entry.read # "content"
    THEN [raised |-> Some(<<"DocumentProcessingError", "Error reading file">>),
          chunks |-> 0]
    ELSE [raised |-> None, chunks |-> entry.chunks]

\* An except clause that lets no exception pass.
ContinuesAfterNothing(exception) == FALSE

\* except DocumentProcessingError: continue (every other exception is raised
\* again)
ContinuesAfter(exception) == exception[1] = "DocumentProcessingError"


\* The loop over files goes on with the next file, or process_and_add_documents
\* returns after the last one, having made a number of add calls.
NextFile(added) ==
    IF file_idx < Len(files)
    THEN /\ pc' = "process_document"
         /\ file_idx' = file_idx + 1
         /\ UNCHANGED run_results
    ELSE /\ pc' = "run_done"
         /\ UNCHANGED file_idx
         /\ run_results' = Append(run_results,
                                  [outcome |-> "returned", added |-> added])

\* An exception leaves process_and_add_documents.
AbortRun(exception, added) ==
    /\ raised' = Some(exception)
    /\ pc' = "run_done"
    /\ UNCHANGED file_idx
    /\ run_results' = Append(run_results, [outcome |-> "raised", added |-> added])

\* An exception reaches the except clauses of the loop over files.
HandleInLoop(exception, added) ==
    IF ContinuesAfter(exception)
    THEN NextFile(added) /\ UNCHANGED raised
    ELSE AbortRun(exception, added)

\* process_and_add_documents(collection, folder_path), up to the loop over
\* files; also called again after it has returned or raised.
StartRun ==
    /\ \/ pc = "process_and_add_documents"
       \/ pc = "run_done" /\ Len(run_results) < MaxRuns
    /\ run_added' = 0
    /\ batch_i' = 0
    /\ IF ~folder.is_dir
       THEN /\ raised' = Some(<<"ValueError", "Invalid folder path">>)
            /\ pc' = "run_done"
            /\ run_results' = Append(run_results,
                                     [outcome |-> "raised", added |-> 0])
            /\ UNCHANGED <<processed_files, files, file_idx>>
       ELSE /\ raised' = None
            /\ processed_files' = GetProcessedFiles(collection)
            /\ files' = FilesToProcess(folder, processed_files')
            /\ IF files' = <<>>
               THEN /\ pc' = "run_done"
                    /\ file_idx' = 0
                    /\ run_results' = Append(run_results,
                                             [outcome |-> "returned", added |-> 0])
               ELSE /\ pc' = "process_document"
                    /\ file_idx' = 1
                    /\ UNCHANGED run_results
    /\ UNCHANGED <<folder, collection, returned>>
    /\ UNCHANGED <<chunkerVars, apiVars, readerVars, csvVars, convVars>>

\* One file of the loop: process_document(file_path) and add_to_collection up
\* to its loop over batches.
ProcessFile ==
    /\ pc = "process_document"
    /\ LET result == ProcessDocument(EntryOf(folder, files[file_idx]))
       IN  IF result.raised # None
           THEN HandleInLoop(result.raised[1], run_added)
           ELSE IF result.chunks = 0
           THEN NextFile(run_added) /\ UNCHANGED raised
           ELSE /\ pc' = "add_to_collection"
                /\ UNCHANGED <<file_idx, run_results, raised>>
    /\ batch_i' = 0
    /\ UNCHANGED <<folder, collection, processed_files, files, run_added, returned>>
    /\ UNCHANGED <<chunkerVars, apiVars, readerVars, csvVars, convVars>>

\* add_to_collection: one batch; collection.add returns or raises.
AddBatch ==
    /\ pc = "add_to_collection"
    /\ LET source == files[file_idx]
           count == EntryOf(folder, source).chunks
           end_idx == IF batch_i + BatchSize < count THEN batch_i + BatchSize
                      ELSE count
       IN  \E add_returns \in BOOLEAN :
              IF add_returns
              THEN /\ collection' = Append(collection,
                                           [source |-> source, first |-> batch_i,
                                            last |-> end_idx])
                   /\ run_added' = run_added + 1
                   /\ IF batch_i + BatchSize < count
                      THEN /\ batch_i' = batch_i + BatchSize
                           /\ UNCHANGED <<pc, file_idx, run_results, raised>>
                      ELSE /\ UNCHANGED batch_i
                           /\ NextFile(run_added + 1)
                           /\ UNCHANGED raised
              ELSE /\ HandleInLoop(<<"ChromaError", "add failed">>, run_added)
                   /\ UNCHANGED <<collection, run_added, batch_i>>
    /\ UNCHANGED <<folder, processed_files, files, returned>>
    /\ UNCHANGED <<chunkerVars, apiVars, readerVars, csvVars, convVars>>

InitIngest ==
    /\ pc = "process_and_add_documents"
    /\ folder \in Folders
    /\ collection = <<>>
    /\ processed_files = {}
    /\ files = <<>>
    /\ file_idx = 0
    /\ batch_i = 0
    /\ run_added = 0
    /\ run_results = <<>>
    /\ CallIdle /\ ApiIdle /\ ReaderIdle /\ CsvIdle /\ ConvIdle
    /\ ChunkerIdle

NextIngest ==
    \/ StartRun
    \/ ProcessFile
    \/ AddBatch

SpecIngest == InitIngest /\ [][NextIngest]_vars

----------------------------------------------------------------------------
(* Claims about ingestion (checked under SpecIngest).                       *)

\* The chunk numbers the collection holds for a source, and how many times a
\* chunk number was added for it.
StoredChunks(name) ==
    UNION {collection[n].first..(collection[n].last - 1) :
             n \in {k \in 1..Len(collection) : collection[k].source = name}}

\* A file that is there, of a supported format, and readable.
Readable(entry) ==
    /\ entry.exists
    /\ entry.read = "content"
    /\ SelectedFor(entry.name) # {}

\* The file at place k of files is fully added if readable and absent from the
\* collection if not.
Settled(k) ==
    LET entry == EntryOf(folder, files[k])
    IN  StoredChunks(files[k]) =
            IF Readable(entry) THEN 0..(entry.chunks - 1) ELSE {}

RunAborted ==
    pc = "run_done" /\ folder.is_dir /\ run_results[Len(run_results)].outcome = "raised"

RunReturned ==
    pc = "run_done" /\ folder.is_dir /\ run_results[Len(run_results)].outcome = "returned"

\* C14: a file that is gone, of an unsupported format or unreadable adds
\* nothing and does not end the run: the files before the one being processed,
\* and all files once the run has returned, are fully added if readable and
\* absent if not; a run ends with an exception only when an add of a readable
\* file failed, and then no later file of the list is in the collection.
C14_SkipBadFilesAbortOnOthers ==
    /\ pc \in {"process_document", "add_to_collection"} =>
          \A k \in 1..(file_idx - 1) : Settled(k)
    /\ RunReturned => \A k \in 1..Len(files) : Settled(k)
    /\ RunAborted =>
          /\ \A k \in 1..(file_idx - 1) : Settled(k)
          /\ Readable(EntryOf(folder, files[file_idx]))
          /\ \A k \in (file_idx + 1)..Len(files) : StoredChunks(files[k]) = {}
    /\ folder.is_dir =>
          \A n \in 1..Len(folder.entries) :
             SelectedFor(folder.entries[n].name) = {} =>
                StoredChunks(folder.entries[n].name) = {}

\* C14 witness: a run skipped a first file that was gone and was aborted by
\* the second add of the second file, with a third file waiting.
C14_Witness ==
    /\ RunAborted
    /\ Len(files) = 3
    /\ file_idx = 2
    /\ ~EntryOf(folder, files[1]).exists
    /\ StoredChunks(files[2]) = 0..(BatchSize - 1)

\* The batches added before the current (or last) run began, and in it.
AddedBefore == SubSeq(collection, 1, Len(collection) - run_added)
AddedInRun == SubSeq(collection, Len(collection) - run_added + 1, Len(collection))

\* C15: a run adds no batch for a source the collection held when the run
\* began; and once a run has returned without an exception, every later run
\* over the folder adds nothing.
C15_ProcessedFilesNotAddedAgain ==
    /\ \A n \in 1..Len(AddedInRun) :
          AddedInRun[n].source \notin GetProcessedFiles(AddedBefore)
    /\ \A j, k \in 1..Len(run_results) :
          (j < k /\ run_results[j].outcome = "returned") =>
             run_results[k].added = 0
    /\ (pc # "run_done" /\ \E j \in 1..Len(run_results) :
                              run_results[j].outcome = "returned") =>
          run_added = 0

\* C15 witness: a first run returned having added two files, one of them in
\* two batches, and a second run over the folder has returned.
C15_Witness ==
    /\ pc = "run_done"
    /\ Len(run_results) = 2
    /\ run_results[1] = [outcome |-> "returned", added |-> 3]
    /\ run_results[2] = [outcome |-> "returned", added |-> 0]
    /\ Len(collection) = 3

----------------------------------------------------------------------------
(* The CSV log of results (src/src/rag_from_scratch/utils/save_results.py). *)

MaxSaves == 3

\* The header row.
HeaderRow == <<"Query", "Response", "Sources">>

\* The results handed to save_rag_results: what handle_user_query builds, and
\* a dictionary without the key "sources".
ResultsPool ==
    {[query |-> "what is it?", response |-> "answer",
      sources |-> "a.txt (chunk 0)\nb.PDF (chunk 1)"],
     [query |-> "and then?",
      response |-> "API error occurred. Please try again later.", sources |-> ""],
     [query |-> "", response |-> "", sources |-> ""],
     [query |-> "what is it?", response |-> "answer"]}

\* A header row for every call.
WriteHeaderAlways(file) == TRUE

\* write_header = not filepath.exists()
WriteHeader(file) == file = None

\* filepath.open("a"): the rows of the file as the writer finds them.
OpenAppend(file) == IF file = None THEN <<>> ELSE file[1]

\* save_rag_results(filepath, results): open may fail, and the data row needs
\* the three keys; every exception is logged and raised again.
SaveRagResults ==
    /\ pc = "save_rag_results"
    /\ Len(saved_rows) < MaxSaves
    /\ \E res \in ResultsPool, open_fails \in BOOLEAN :
          /\ results' = Some(res)
          /\ IF open_fails
             THEN /\ raised' = Some("PermissionError")
                  /\ UNCHANGED <<csv_file, saved_rows>>
             ELSE LET write_header == WriteHeader(csv_file)
                      opened == OpenAppend(csv_file)
                      headed == IF write_header THEN Append(opened, HeaderRow)
                                ELSE opened
                  IN  IF {"query", "response", "sources"} \subseteq DOMAIN res
                      THEN /\ csv_file' =
                                Some(Append(headed,
                                            <<res.query, res.response, res.sources>>))
                           /\ saved_rows' = Append(saved_rows, res)
                           /\ raised' = None
                      ELSE /\ csv_file' = Some(headed)
                           /\ raised' = Some("KeyError")
                           /\ UNCHANGED saved_rows
    /\ UNCHANGED <<pc, returned>>
    /\ UNCHANGED <<chunkerVars, apiVars, readerVars, convVars, ingestVars>>

InitSave ==
    /\ pc = "save_rag_results"
    /\ csv_file = None
    /\ results = None
    /\ saved_rows = <<>>
    /\ CallIdle /\ ApiIdle /\ ReaderIdle /\ ConvIdle /\ IngestIdle
    /\ ChunkerIdle

NextSave == SaveRagResults

SpecSave == InitSave /\ [][NextSave]_vars

----------------------------------------------------------------------------
(* Claims about the CSV log (checked under SpecSave).                       *)

\* The data row of a results dictionary.
DataRow(res) == <<res.query, res.response, res.sources>>

\* C16: once n >= 1 calls have returned, the file holds the header row and
\* then the n data rows of those calls, in call order; and every step on an
\* existing file keeps its rows in place and appends at most one row, which is
\* no header.
C16_HeaderOnceRowsAppended ==
    /\ [](saved_rows # <<>> =>
            /\ csv_file # None
            /\ Len(csv_file[1]) = Len(saved_rows) + 1
            /\ csv_file[1][1] = HeaderRow
            /\ \A n \in 1..Len(saved_rows) :
                  csv_file[1][n + 1] = DataRow(saved_rows[n]))
    /\ [][csv_file # None =>
            /\ csv_file' # None
            /\ IsPrefix(csv_file[1], csv_file'[1])
            /\ Len(csv_file'[1]) <= Len(csv_file[1]) + 1
            /\ \A n \in (Len(csv_file[1]) + 1)..Len(csv_file'[1]) :
                  csv_file'[1][n] # HeaderRow]_vars

\* C16 witness: three calls with different results have returned and the file
\* has four rows.
C16_Witness ==
    /\ Len(saved_rows) = 3
    /\ saved_rows[1] # saved_rows[2]
    /\ saved_rows[2] # saved_rows[3]
    /\ csv_file # None
    /\ Len(csv_file[1]) = 4

----------------------------------------------------------------------------
(* The conversation manager (src/src/rag_from_scratch/core/rag_pipeline.py). *)

MaxStored == 3
MaxWindow == 2

\* ConversationManager.__init__: the default of max_messages
DefaultMaxMessages == 5

SessionIds == {"s1", "s2"}
Roles == {"user", "assistant"}
MessageContents == {"what is it?"}

\* The number of messages stored, over all sessions.
RECURSIVE CountMessages(_, _)
CountMessages(convs, ids) ==
    IF ids = {} THEN 0
    ELSE LET sid == CHOOSE x \in ids : TRUE
         IN  Len(convs[sid]) + CountMessages(convs, ids \ {sid})

StoredMessages(convs) == CountMessages(convs, DOMAIN convs)

\* seq[start:] of Python, for a start of either sign.
SliceFrom(seq, start) ==
    LET from == IF start < 0
                THEN (IF Len(seq) + start < 0 THEN 0 ELSE Len(seq) + start)
                ELSE (IF start > Len(seq) THEN Len(seq) ELSE start)
    IN  SubSeq(seq, from + 1, Len(seq))

\* ConversationManager.get_conversation_history(session_id): what it returns
GetConversationHistoryResult(convs, limit, sid) ==
    IF sid \notin DOMAIN convs THEN <<>>
    ELSE LET history == convs[sid]
         IN  IF limit # None THEN SliceFrom(history, -limit[1]) ELSE history

\* ConversationManager.create_session(): uuid4 gives an id not in use
CreateSession ==
    /\ pc \in {"ConversationManager", "create_session", "add_message",
               "get_conversation_history"}
    /\ \E sid \in SessionIds \ DOMAIN conversations :
          /\ conversations' = conversations @@ (sid :> <<>>)
          /\ session_id' = sid
          /\ returned' = Some(sid)
    /\ pc' = "create_session"
    /\ UNCHANGED <<max_messages, raised>>
    /\ UNCHANGED <<chunkerVars, apiVars, readerVars, csvVars, ingestVars>>

\* ConversationManager.add_message(session_id, role, content); the timestamp
\* is the place of the message among all messages added.
AddMessage ==
    /\ pc \in {"ConversationManager", "create_session", "add_message",
               "get_conversation_history"}
    /\ StoredMessages(conversations) < MaxStored
    /\ \E sid \in SessionIds, role \in Roles, content \in MessageContents :
          LET known == IF sid \in DOMAIN conversations THEN conversations
                       ELSE conversations @@ (sid :> <<>>)
              message == [role |-> role, content |-> content,
                          timestamp |-> StoredMessages(conversations) + 1]
          IN  /\ conversations' =
                    [known EXCEPT ![sid] = Append(known[sid], message)]
              /\ session_id' = sid
    /\ returned' = None
    /\ pc' = "add_message"
    /\ UNCHANGED <<max_messages, raised>>
    /\ UNCHANGED <<chunkerVars, apiVars, readerVars, csvVars, ingestVars>>

\* ConversationManager.get_conversation_history(session_id)
GetConversationHistory ==
    /\ pc \in {"ConversationManager", "create_session", "add_message",
               "get_conversation_history"}
    /\ \E sid \in SessionIds :
          /\ session_id' = sid
          /\ returned' = Some(GetConversationHistoryResult(conversations,
                                                           max_messages, sid))
    /\ pc' = "get_conversation_history"
    /\ UNCHANGED <<conversations, max_messages, raised>>
    /\ UNCHANGED <<chunkerVars, apiVars, readerVars, csvVars, ingestVars>>

\* ConversationManager(max_messages)
InitConversation ==
    /\ pc = "ConversationManager"
    /\ conversations = <<>>
    /\ max_messages \in
          {None, Some(DefaultMaxMessages)} \cup {Some(m) : m \in 0..MaxWindow}
    /\ session_id = ""
    /\ CallIdle /\ ApiIdle /\ ReaderIdle /\ CsvIdle /\ IngestIdle
    /\ ChunkerIdle

NextConversation ==
    \/ CreateSession
    \/ AddMessage
    \/ GetConversationHistory

SpecConversation == InitConversation /\ [][NextConversation]_vars

----------------------------------------------------------------------------
(* Claims about the conversation manager (checked under SpecConversation).  *)

\* The m most recent messages of a history, oldest first; all of them when
\* the history has fewer than m.
MostRecent(history, m) ==
    SelectSeq(history,
              LAMBDA msg : Cardinality({n \in 1..Len(history) :
                                          history[n].timestamp >= msg.timestamp}) <= m)

\* What the claim has get_conversation_history(sid) return.
HistoryClaimed(convs, limit, sid) ==
    IF sid \notin DOMAIN convs THEN <<>>
    ELSE IF limit = None THEN convs[sid]
    ELSE MostRecent(convs[sid], limit[1])

\* C20: every call of get_conversation_history leaves the stored histories
\* (and the set of sessions) as they were and returns: [] for an unknown
\* session, the whole history when max_messages is None, and otherwise the
\* max_messages most recent messages of the session, oldest first, so never
\* more than max_messages of them.
C20_HistoryWindow ==
    [][pc' = "get_conversation_history" =>
          /\ conversations' = conversations
          /\ returned' = Some(HistoryClaimed(conversations, max_messages, session_id'))
          /\ max_messages # None => Len(returned'[1]) <= max_messages[1]]_vars

----------------------------------------------------------------------------
(* Queries within a conversation                                            *)
(* (src/src/rag_from_scratch/core/rag_pipeline.py).                         *)

\* separator.join(strings), on strings proper
RECURSIVE JoinStrings(_, _)
JoinStrings(strings, separator) ==
    IF strings = <<>> THEN ""
    ELSE IF Len(strings) = 1 THEN strings[1]
    ELSE strings[1] \o separator \o JoinStrings(Tail(strings), separator)

\* ConversationManager.format_history_for_prompt(session_id): one
\* "<Human|Assistant>: <content>\n\n" per message of the history, stripped,
\* which takes the last "\n\n" away (the contents of the model neither start
\* nor end with whitespace).
FormatHistoryForPrompt(convs, limit, sid) ==
    LET history == GetConversationHistoryResult(convs, limit, sid)
        lines == [n \in 1..Len(history) |->
                    (IF history[n].role = "user" THEN "Human" ELSE "Assistant")
                    \o ": " \o history[n].content]
    IN  JoinStrings(lines, "\n\n")

\* What collection.query returns for one query text: up to n_chunks documents
\* with their metadata and distances (in ten-thousandths).
SearchResults ==
    {[documents |-> << <<>> >>, metadatas |-> << <<>> >>, distances |-> << <<>> >>],
     [documents |-> << <<"chunk one", "chunk two">> >>,
      metadatas |-> << <<[source |-> "a.txt", chunk |-> 0],
                         [source |-> "b.PDF", chunk |-> 1]>> >>,
      distances |-> << <<1234, 5678>> >>]}

\* get_context_with_sources(results): the context and, for every source, what
\* its line is formatted from.
GetContextWithSources(found) ==
    [context |-> JoinStrings(found.documents[1], "\n\n"),
     sources |-> [n \in 1..Len(found.metadatas[1]) |->
                    <<found.metadatas[1][n].source, found.metadatas[1][n].chunk,
                      found.distances[1][n]>>]]

\* ConversationManager.add_message(session_id, role, content), as a value
WithMessage(convs, sid, role, content) ==
    LET known == IF sid \in DOMAIN convs THEN convs ELSE convs @@ (sid :> <<>>)
        message == [role |-> role, content |-> content,
                    timestamp |-> StoredMessages(convs) + 1]
    IN  [known EXCEPT ![sid] = Append(known[sid], message)]

\* Mutant: the response is recorded before the query.
RecordedMessagesResponseFirst(asked, response) ==
    <<[role |-> "assistant", content |-> response],
      [role |-> "user", content |-> asked]>>

\* conversational_rag_query: the two add_message calls, in order
RecordedMessages(asked, response) ==
    <<[role |-> "user", content |-> asked],
      [role |-> "assistant", content |-> response]>>

\* process_conversation(conversation_manager, collection, query, session_id):
\* the call, and conversational_rag_query up to the formatted history.
StartConversationalQuery ==
    /\ pc = "process_conversation"
    /\ StoredMessages(conversations) < MaxStored
    /\ \E sid \in SessionIds, asked \in Queries :
          /\ session_id' = sid
          /\ query' = asked
          /\ conversation_history' =
                Some(FormatHistoryForPrompt(conversations, max_messages, sid))
    /\ context' = ""
    /\ prompt' = None
    /\ completion' = None
    /\ search_results' = None
    /\ returned' = None
    /\ raised' = None
    /\ pc' = "contextualize_query"
    /\ UNCHANGED <<conversations, max_messages>>
    /\ UNCHANGED <<chunkerVars, readerVars, csvVars, ingestVars>>

\* conversational_rag_query after contextualize_query: the query is replaced
\* by what it returned, then semantic_search and get_context_with_sources; an
\* exception of contextualize_query or of collection.query leaves the call.
SemanticSearch ==
    /\ pc = "contextualize_query_done"
    /\ IF raised # None
       THEN /\ pc' = "process_conversation"
            /\ UNCHANGED <<query, context, search_results, returned, raised>>
       ELSE /\ query' = returned[1]
            /\ returned' = None
            /\ \/ \E found \in SearchResults :
                     /\ search_results' = Some(found)
                     /\ context' = GetContextWithSources(found).context
                     /\ pc' = "generate_response"
                     /\ UNCHANGED raised
               \/ /\ raised' = Some("ChromaError")
                  /\ pc' = "process_conversation"
                  /\ UNCHANGED <<context, search_results>>
    /\ UNCHANGED <<conversation_history, prompt, completion>>
    /\ UNCHANGED <<conversations, max_messages, session_id>>
    /\ UNCHANGED <<chunkerVars, readerVars, csvVars, ingestVars>>

\* conversational_rag_query after generate_response: the two messages are
\* added and the call returns; an exception of generate_response leaves the
\* call.
RecordMessages ==
    /\ pc = "generate_response_done"
    /\ IF raised # None
       THEN UNCHANGED <<conversations, returned>>
       ELSE LET response == returned[1]
                recorded == RecordedMessages(query, response)
                first == WithMessage(conversations, session_id,
                                     recorded[1].role, recorded[1].content)
            IN  /\ conversations' = WithMessage(first, session_id,
                                                recorded[2].role, recorded[2].content)
                /\ returned' = Some(<<response,
                                      GetContextWithSources(search_results[1]).sources,
                                      search_results[1]>>)
    /\ pc' = "process_conversation"
    /\ UNCHANGED <<raised, max_messages, session_id, apiVars>>
    /\ UNCHANGED <<chunkerVars, readerVars, csvVars, ingestVars>>

InitChat ==
    /\ pc = "process_conversation"
    /\ conversations = <<>>
    /\ max_messages \in
          {None, Some(DefaultMaxMessages)} \cup {Some(m) : m \in 0..MaxWindow}
    /\ session_id = ""
    /\ CallIdle /\ ApiIdle /\ ReaderIdle /\ CsvIdle /\ IngestIdle
    /\ ChunkerIdle

NextChat ==
    \/ StartConversationalQuery
    \/ ContextualizeQuery
    \/ SemanticSearch
    \/ GenerateResponse
    \/ RecordMessages

SpecChat == InitChat /\ [][NextChat]_vars

----------------------------------------------------------------------------
(* Claims about queries within a conversation (checked under SpecChat).     *)

\* The stored history of a session, [] for a session that is not there.
StoredHistory(convs, sid) == IF sid \in DOMAIN convs THEN convs[sid] ELSE <<>>

\* The step in which conversational_rag_query returns.
QueryReturns ==
    pc = "generate_response_done" /\ raised = None /\ pc' = "process_conversation"

\* A history as the prompts show it.
RECURSIVE HistoryShown(_)
HistoryShown(history) ==
    IF history = <<>> THEN ""
    ELSE LET last == history[Len(history)]
             line == (IF last.role = "user" THEN "Human: " ELSE "Assistant: ")
                     \o last.content
         IN  IF Len(history) = 1 THEN line
             ELSE HistoryShown(SubSeq(history, 1, Len(history) - 1))
                  \o "\n\n" \o line

\* The histories a prompt may show for a stored history: the whole of it, or,
\* under a limit of m messages, its most recent part of m messages or more.
RecordedHistories(history, limit) ==
    {HistoryShown(SubSeq(history, k, Len(history))) :
        k \in {j \in 1..(Len(history) + 1) :
                 IF limit = None THEN j = 1
                 ELSE j = 1 \/ Len(history) - j + 1 >= limit[1]}}

\* C21: the step in which a query returns appends two messages to the session
\* of the query, a "user" message and then an "assistant" message holding the
\* returned response, and leaves every other session alone; every other step,
\* those of a query that raises included, leaves all stored histories as they
\* are; so every stored history alternates user, assistant from a user
\* message on; and the history in the prompts of a query is the stored
\* history of its session, which holds none of the query's own messages yet.
C21_QueryRecordsTwoMessages ==
    /\ [][IF QueryReturns
          THEN LET old == StoredHistory(conversations, session_id)
                   new == StoredHistory(conversations', session_id)
               IN  /\ DOMAIN conversations' = DOMAIN conversations \cup {session_id}
                   /\ \A sid \in DOMAIN conversations \ {session_id} :
                         conversations'[sid] = conversations[sid]
                   /\ Len(new) = Len(old) + 2
                   /\ SubSeq(new, 1, Len(old)) = old
                   /\ new[Len(old) + 1].role = "user"
                   /\ new[Len(old) + 2].role = "assistant"
                   /\ new[Len(old) + 2].content = returned'[1][1]
          ELSE conversations' = conversations]_vars
    /\ [](\A sid \in DOMAIN conversations :
            \A n \in 1..Len(conversations[sid]) :
               conversations[sid][n].role =
                  IF n % 2 = 1 THEN "user" ELSE "assistant")
    /\ [](pc = "contextualize_query_done" =>
            prompt[1][2] \in RecordedHistories(
                                StoredHistory(conversations, session_id),
                                max_messages))
    /\ [](pc = "generate_response_done" =>
            prompt[1][3] \in RecordedHistories(
                                StoredHistory(conversations, session_id),
                                max_messages))

\* C21 witness: a second query of session s1 has returned under a limit of one
\* message, having shown the prompts the answer to the first query.
C21_Witness ==
    /\ pc = "process_conversation"
    /\ raised = None
    /\ max_messages = Some(1)
    /\ DOMAIN conversations = {"s1"}
    /\ Len(conversations["s1"]) = 4
    /\ conversation_history = Some("Assistant: answer")
    /\ conversations["s1"][4].content = "Rate limit exceeded. Please try again later."

----------------------------------------------------------------------------
(* Claims about ingestion across runs (checked under SpecIngest).           *)

\* How many times chunk number c of a source was added to the collection.
TimesStored(name, c) ==
    Cardinality({n \in 1..Len(collection) :
                   /\ collection[n].source = name
                   /\ collection[n].first <= c
                   /\ c < collection[n].last})

\* C22: every file that get_processed_files reported to a run as processed
\* has each of its chunks 0 .. n-1 in the collection exactly once, whatever
\* the runs before did, runs ended by a failing collection.add included; and
\* every batch added holds at least one and at most 100 chunks.
C22_ProcessedFilesFullyStored ==
    /\ \A name \in processed_files :
          \A c \in 0..(EntryOf(folder, name).chunks - 1) :
             TimesStored(name, c) = 1
    /\ \A n \in 1..Len(collection) :
          /\ collection[n].first < collection[n].last
          /\ collection[n].last - collection[n].first <= BatchSize

=============================================================================
